---- MODULE Spec2Model ----
(***************************************************************************)
(* Space-colonization tree growth of pixel-bonsai (src/src/main.rs):       *)
(* the density sampler, the node arena, the growth cycle Tree::sim with    *)
(* its prune and weight passes.                                            *)
(*                                                                         *)
(* Arithmetic.  The program computes in f32.  Here every f32 length is a   *)
(* fixed-point integer with Scale units per 1.0; squared lengths are       *)
(* compared as the code compares them (length_sqr() < d * d).  A f32 NaN   *)
(* is the flag nan of a vector: every comparison with a NaN is false.      *)
(* The arena is a function on 0 .. len-1, as Vec<Node> is indexed.         *)
(*                                                                         *)
(* Specifications.  Spec: Tree::new, then sim calls.  SpecRegrow: Spec     *)
(* with the growth step run on after growing has gone off.  SpecOrder and  *)
(* SpecChain: Tree::new with chosen points.  SpecMinGrowth:                *)
(* Tree::new_min_growth.  SpecWeight, SpecPrune: recalculate_weight and    *)
(* prune on any arena.  SpecSample: SimplexDensityPRG::sample.             *)
(***************************************************************************)
EXTENDS Integers, Sequences, FiniteSets, TLC

VARIABLES
    nodes,      \* Tree.nodes: the arena, a function 0 .. len-1 -> Node
    points,     \* Tree.points: the live attraction points, a sequence
    growing,    \* Tree.growing
    config,     \* Tree.config
    calls,      \* number of sim calls made so far (history, capped by MaxCalls)
    before,     \* [nodes, points, growing] as the latest sim call found them (history)
    inner,      \* [new_nodes, nodes]: the proposals of the latest sim call and the
                \* arena as its prune call found it (history)
    iter,       \* the argument iter of new_min_growth
    tries,      \* attempts new_min_growth has discarded (history, capped by MaxTries)
    pc,         \* "tree"; "attempt", "returned"; "weight", "weighed";
                \* "prune", "pruned"; "sample", "sampled"
    prg,        \* a SimplexDensityPRG: [buf, rows, sum]
    rnd,        \* the value rand.gen::<f32>() returns, as rnd / RandDenom
    sampled,    \* what sample returned: [done, x, y]
    twin        \* a second Tree built from the same Config and points:
                \* [nodes, points, growing]

vars == <<nodes, points, growing, config, calls, before, inner, iter, tries, pc,
          prg, rnd, sampled, twin>>

treeVars == <<nodes, points, growing, config>>

prgVars == <<prg, rnd, sampled>>

minGrowthVars == <<iter, tries>>

-----------------------------------------------------------------------------
(* Bounds of the model *)

\* fixed-point units per 1.0
Scale == 10

\* sub-units used while taking the square root in normalized()
Precision == 64

\* largest Config.num_points
MaxPoints == 3

\* sim calls made in one run
MaxCalls == 6

\* largest argument iter of new_min_growth
MaxIter == 3

\* attempts of new_min_growth that are followed
MaxTries == 2

\* largest arena prune is applied to on its own
MaxPruneArena == 3

\* largest arena recalculate_weight is applied to on its own
MaxArena == 4

\* largest width and height of a density map
MaxSide == 2

\* the drawn f32 values are 0 / RandDenom .. (RandDenom - 1) / RandDenom
RandDenom == 4

-----------------------------------------------------------------------------
(* f32 and Vector2 *)

\* the f32 n / d
Fx(n, d) == (n * Scale) \div d

\* a / b rounded to the nearest integer, b > 0
Round(a, b) == (2 * a + b) \div (2 * b)

RECURSIVE SqrtSearch(_, _, _)
SqrtSearch(n, lo, hi) ==
    IF lo >= hi THEN lo
    ELSE LET mid == (lo + hi + 1) \div 2
         IN  IF mid * mid <= n THEN SqrtSearch(n, mid, hi)
             ELSE SqrtSearch(n, lo, mid - 1)

RECURSIVE SqrtUpper(_, _)
\* a power of two h with h * h > n
SqrtUpper(n, h) == IF h * h > n THEN h ELSE SqrtUpper(n, 2 * h)

\* floor of the square root of n
ISqrt(n) == SqrtSearch(n, 0, SqrtUpper(n, 1))

Vec(x, y) == [nan |-> FALSE, x |-> x, y |-> y]

NaNVec == [nan |-> TRUE, x |-> 0, y |-> 0]

VZero == Vec(0, 0)

VAdd(a, b) == IF a.nan \/ b.nan THEN NaNVec ELSE Vec(a.x + b.x, a.y + b.y)

VSub(a, b) == IF a.nan \/ b.nan THEN NaNVec ELSE Vec(a.x - b.x, a.y - b.y)

\* v.length_sqr() < d * d
LengthSqrLess(v, d) == ~v.nan /\ v.x * v.x + v.y * v.y < d * d

\* v.normalized() * len.  normalized() is v / v.length(); on the zero vector
\* the library either divides by zero (NaN, zeroNaN) or returns the vector.
NormalizedTimes(v, len, zeroNaN) ==
    IF v.nan THEN NaNVec
    ELSE IF v.x = 0 /\ v.y = 0 THEN (IF zeroNaN THEN NaNVec ELSE VZero)
    ELSE LET l == ISqrt((v.x * v.x + v.y * v.y) * Precision * Precision)
         IN  Vec(Round(v.x * len * Precision, l), Round(v.y * len * Precision, l))

\* a.lerp(b, t) = a + t * (b - a), t = <<numerator, denominator>>
Lerp(a, b, t) ==
    IF a.nan \/ b.nan THEN NaNVec
    ELSE Vec(a.x + Round(t[1] * (b.x - a.x), t[2]),
             a.y + Round(t[1] * (b.y - a.y), t[2]))

-----------------------------------------------------------------------------
(* Node *)

None == -1

\* new_root with the root made its own parent (Some(0))
new_root_self(pos) ==
    [alive |-> TRUE, pos |-> pos, parent |-> 0, child_count |-> 0,
     depth |-> 0, weight |-> 1, z |-> 0]

new_root(pos) ==
    [alive |-> TRUE, pos |-> pos, parent |-> None, child_count |-> 0,
     depth |-> 0, weight |-> 1, z |-> 0]

Clamp(v, lo, hi) == IF v < lo THEN lo ELSE IF v > hi THEN hi ELSE v

\* new_branch copying the parent's depth
new_branch_flat(pos, parent_idx, parent, cfg, zr) ==
    LET z_change == Round((2 * zr[1] - zr[2]) * cfg.node_depth_change, zr[2])
        z == Clamp(parent.z + z_change, 0, cfg.node_depth_max * Scale)
    IN  [alive |-> TRUE, pos |-> pos, parent |-> parent_idx, child_count |-> 0,
         depth |-> parent.depth, weight |-> 1, z |-> z]

\* zr = <<n, d>> is the value rand::random::<f32>() returns
new_branch(pos, parent_idx, parent, cfg, zr) ==
    LET z_change == Round((2 * zr[1] - zr[2]) * cfg.node_depth_change, zr[2])
        z == Clamp(parent.z + z_change, 0, cfg.node_depth_max * Scale)
    IN  [alive |-> TRUE, pos |-> pos, parent |-> parent_idx, child_count |-> 0,
         depth |-> parent.depth + 1, weight |-> 1, z |-> z]

Len0(ns) == Cardinality(DOMAIN ns)

Push(ns, n) == [i \in 0 .. Len0(ns) |-> IF i < Len0(ns) THEN ns[i] ELSE n]

-----------------------------------------------------------------------------
(* Config *)

\* The fields of Config the growth engine reads.  Lengths are fixed point;
\* parent_dir_factor and prune_size_ratio are <<numerator, denominator>>;
\* prune_pow is a natural number, so that powf is exact.
ConfigOf(mc, np, pp, psr) ==
    [attraction_dist |-> Fx(4, 1), kill_dist |-> Fx(26, 10), grow_dist |-> Fx(2, 1),
     node_min_dist |-> Fx(16, 10), width |-> Fx(8, 1), height |-> Fx(10, 1),
     max_children |-> mc, max_depth |-> 3, num_points |-> np,
     min_y_growth |-> 0, parent_dir_factor |-> <<1, 10>>,
     prune_pow |-> pp, prune_size_ratio |-> psr,
     node_depth_change |-> Fx(1, 1), node_depth_max |-> 5]

\* the pairs <<prune_pow, prune_size_ratio>> tried: one that never prunes a
\* small tree (as main's 0.35 and 0.2), one that prunes every small node
\* near a bigger one, and one that prunes once a node has grown to weight 3
PruneSettings == {<<0, <<1, 5>>>>, <<2, <<1, 1>>>>, <<1, <<1, 2>>>>}

Configs ==
    {ConfigOf(mc, np, ps[1], ps[2]) :
        mc \in {1, 2}, np \in 0 .. MaxPoints, ps \in PruneSettings}

\* the cells (x, y) SimplexDensityPRG::sample may return that the points are
\* drawn from: (4, 1) is the root's own position, (1, 2) and (7, 0) lie opposite
\* each other about the root
CandidateCells == {<<4, 1>>, <<4, 4>>, <<1, 2>>, <<7, 0>>, <<6, 3>>, <<6, 5>>}

\* the values rand::random::<f32>() takes in new_branch
ZDraws == {<<0, 4>>, <<3, 4>>}

-----------------------------------------------------------------------------
(* Tree::sim, the growth step *)

RECURSIVE Fold(_)
\* near_points.into_iter().fold(Vector2::zero(), Add::add)
Fold(vs) == IF vs = <<>> THEN VZero ELSE VAdd(Head(vs), Fold(Tail(vs)))

near_points(node, pts, cfg) ==
    SelectSeq([k \in 1 .. Len(pts) |-> VSub(pts[k], node.pos)],
              LAMBDA p : LengthSqrLess(p, cfg.attraction_dist))

\* Proposes without the limit on child_count
ProposesAnyCount(ns, pts, cfg, i) ==
    /\ ns[i].alive
    /\ near_points(ns[i], pts, cfg) # <<>>

\* the nodes of the first loop that reach new_nodes.push
Proposes(ns, pts, cfg, i) ==
    /\ ~(ns[i].child_count >= cfg.max_children \/ ~ns[i].alive)
    /\ near_points(ns[i], pts, cfg) # <<>>

\* Proposal placing the node higher by the z of its parent
ProposalLifted(ns, pts, cfg, node_idx, zr, zeroNaN) ==
    LET node == ns[node_idx]
        avg_dir == NormalizedTimes(Fold(near_points(node, pts, cfg)),
                                   cfg.grow_dist, zeroNaN)
        prev_dir == IF node.parent # None
                    THEN VSub(node.pos, ns[node.parent].pos)
                    ELSE Vec(0, cfg.grow_dist)
        delta == Lerp(avg_dir, prev_dir, cfg.parent_dir_factor)
    IN  new_branch(VAdd(VAdd(node.pos, delta), Vec(0, node.z)), node_idx, node, cfg, zr)

\* the node pushed for node_idx
Proposal(ns, pts, cfg, node_idx, zr, zeroNaN) ==
    LET node == ns[node_idx]
        avg_dir == NormalizedTimes(Fold(near_points(node, pts, cfg)),
                                   cfg.grow_dist, zeroNaN)
        prev_dir == IF node.parent # None
                    THEN VSub(node.pos, ns[node.parent].pos)
                    ELSE Vec(0, cfg.grow_dist)
        delta == Lerp(avg_dir, prev_dir, cfg.parent_dir_factor)
    IN  new_branch(VAdd(node.pos, delta), node_idx, node, cfg, zr)

RECURSIVE Proposals(_, _, _, _, _, _)
\* new_nodes, built in ascending order of node_idx, from node_idx on
Proposals(ns, pts, cfg, node_idx, zdraw, zeroNaN) ==
    IF node_idx >= Len0(ns) THEN <<>>
    ELSE IF Proposes(ns, pts, cfg, node_idx)
    THEN <<Proposal(ns, pts, cfg, node_idx, zdraw[node_idx], zeroNaN)>>
             \o Proposals(ns, pts, cfg, node_idx + 1, zdraw, zeroNaN)
    ELSE Proposals(ns, pts, cfg, node_idx + 1, zdraw, zeroNaN)

\* DrainFilter looking at alive nodes only
DrainFilterAlive(pts, ns, cfg) ==
    SelectSeq(pts, LAMBDA p :
        ~\E i \in DOMAIN ns :
            ns[i].alive /\ LengthSqrLess(VSub(p, ns[i].pos), cfg.kill_dist))

\* DrainFilter looking at the root only
DrainFilterRoot(pts, ns, cfg) ==
    SelectSeq(pts, LAMBDA p : ~LengthSqrLess(VSub(p, ns[0].pos), cfg.kill_dist))

\* self.points.drain_filter(..).last(): the points that stay
DrainFilter(pts, ns, cfg) ==
    SelectSeq(pts, LAMBDA p :
        ~\E i \in DOMAIN ns : LengthSqrLess(VSub(p, ns[i].pos), cfg.kill_dist))

\* node.pos.y - parent.pos.y < min_y_growth
BelowMinY(ns, node, cfg) ==
    /\ ~node.pos.nan
    /\ ~ns[node.parent].pos.nan
    /\ node.pos.y - ns[node.parent].pos.y < cfg.min_y_growth

\* TooClose looking at alive nodes only
TooCloseAlive(ns, node, cfg) ==
    \E i \in DOMAIN ns :
        ns[i].alive /\ LengthSqrLess(VSub(ns[i].pos, node.pos), cfg.node_min_dist)

\* the inner loop of the acceptance loop: some nod of the arena is too close
TooClose(ns, node, cfg) ==
    \E i \in DOMAIN ns : LengthSqrLess(VSub(ns[i].pos, node.pos), cfg.node_min_dist)

\* Rejected without the depth limit
RejectedAnyDepth(ns, node, cfg) ==
    \/ BelowMinY(ns, node, cfg)
    \/ TooClose(ns, node, cfg)

\* the conditions under which the 'outer loop continues without pushing node
Rejected(ns, node, cfg) ==
    \/ node.depth > cfg.max_depth
    \/ BelowMinY(ns, node, cfg)
    \/ TooClose(ns, node, cfg)

\* AcceptNode counting the child in the parent's depth
AcceptNodeDepth(ns, node) ==
    Push([ns EXCEPT ![node.parent].depth = @ + 1], node)

\* self.nodes[parent].child_count += 1; self.nodes.push(node)
AcceptNode(ns, node) ==
    Push([ns EXCEPT ![node.parent].child_count = @ + 1], node)

RECURSIVE AcceptLoopAny(_, _, _, _, _)
\* AcceptLoop setting has_change for every proposal, rejected or not
AcceptLoopAny(ns, new_nodes, k, has_change, cfg) ==
    IF k > Len(new_nodes) THEN [nodes |-> ns, has_change |-> has_change]
    ELSE IF \/ new_nodes[k].depth > cfg.max_depth
            \/ BelowMinY(ns, new_nodes[k], cfg)
            \/ TooClose(ns, new_nodes[k], cfg)
    THEN AcceptLoopAny(ns, new_nodes, k + 1, TRUE, cfg)
    ELSE AcceptLoopAny(Push([ns EXCEPT ![new_nodes[k].parent].child_count = @ + 1],
                            new_nodes[k]),
                       new_nodes, k + 1, TRUE, cfg)

RECURSIVE AcceptLoopReversed(_, _, _, _, _)
\* AcceptLoop going through new_nodes from its last element to its first
AcceptLoopReversed(ns, new_nodes, k, has_change, cfg) ==
    IF k > Len(new_nodes) THEN [nodes |-> ns, has_change |-> has_change]
    ELSE LET node == new_nodes[Len(new_nodes) + 1 - k]
         IN  IF \/ node.depth > cfg.max_depth
                \/ BelowMinY(ns, node, cfg)
                \/ TooClose(ns, node, cfg)
             THEN AcceptLoopReversed(ns, new_nodes, k + 1, has_change, cfg)
             ELSE AcceptLoopReversed(
                      Push([ns EXCEPT ![node.parent].child_count = @ + 1], node),
                      new_nodes, k + 1, TRUE, cfg)

RECURSIVE AcceptLoop(_, _, _, _, _)
\* the 'outer loop from new_nodes[k] on: the arena and has_change it ends with
AcceptLoop(ns, new_nodes, k, has_change, cfg) ==
    IF k > Len(new_nodes) THEN [nodes |-> ns, has_change |-> has_change]
    ELSE IF Rejected(ns, new_nodes[k], cfg)
    THEN AcceptLoop(ns, new_nodes, k + 1, has_change, cfg)
    ELSE AcceptLoop(AcceptNode(ns, new_nodes[k]), new_nodes, k + 1, TRUE, cfg)

-----------------------------------------------------------------------------
(* Tree::prune *)

RECURSIVE Pow(_, _)
\* (w as f32).powf(p) for a natural p
Pow(w, p) == IF p = 0 THEN 1 ELSE w * Pow(w, p - 1)

\* Conflicts with alive nodes only
ConflictsAlive(node, conflict, cfg) ==
    /\ conflict.alive
    /\ node.weight * cfg.prune_size_ratio[2] < cfg.prune_size_ratio[1] * conflict.weight
    /\ LengthSqrLess(VSub(conflict.pos, node.pos),
                     Pow(conflict.weight, cfg.prune_pow) * Scale)

\* Conflicts with twice the prune_size_ratio
ConflictsDoubled(node, conflict, cfg) ==
    /\ node.weight * cfg.prune_size_ratio[2] < 2 * cfg.prune_size_ratio[1] * conflict.weight
    /\ LengthSqrLess(VSub(conflict.pos, node.pos),
                     Pow(conflict.weight, cfg.prune_pow) * Scale)

\* the condition of the inner loop of prune for the pair (node, conflict)
Conflicts(node, conflict, cfg) ==
    /\ node.weight * cfg.prune_size_ratio[2] < cfg.prune_size_ratio[1] * conflict.weight
    /\ LengthSqrLess(VSub(conflict.pos, node.pos),
                     Pow(conflict.weight, cfg.prune_pow) * Scale)

RECURSIVE AncestorInDeath(_, _, _)
\* the while let loop: some ancestor from `ancestor` up is in death_node
AncestorInDeath(ns, ancestor, death_node) ==
    IF ancestor = None THEN FALSE
    ELSE \/ ancestor \in death_node
         \/ AncestorInDeath(ns, ns[ancestor].parent, death_node)

RECURSIVE DeathNodesDirect(_, _, _, _)
\* DeathNodes without the transitive adding of dead nodes
DeathNodesDirect(ns, cfg, node_idx, death_node) ==
    IF node_idx >= Len0(ns) THEN death_node
    ELSE DeathNodesDirect(ns, cfg, node_idx + 1,
            IF \E c \in DOMAIN ns : Conflicts(ns[node_idx], ns[c], cfg)
            THEN death_node \cup {node_idx} ELSE death_node)

RECURSIVE DeathNodes(_, _, _, _)
\* death_node after the outer loop has run from node_idx on; the Vec is kept
\* as the set of its elements (it is only searched and iterated)
DeathNodes(ns, cfg, node_idx, death_node) ==
    IF node_idx >= Len0(ns) THEN death_node
    ELSE LET direct == IF \E c \in DOMAIN ns : Conflicts(ns[node_idx], ns[c], cfg)
                       THEN death_node \cup {node_idx} ELSE death_node
             trans == IF AncestorInDeath(ns, ns[node_idx].parent, direct)
                      THEN direct \cup {node_idx} ELSE direct
         IN  DeathNodes(ns, cfg, node_idx + 1, trans)

\* Kill flipping the flag of the marked nodes instead of clearing it
KillToggle(ns, death_node) ==
    [i \in DOMAIN ns |-> IF i \in death_node THEN [ns[i] EXCEPT !.alive = ~@]
                         ELSE ns[i]]

\* for death in death_node { self.nodes[death].alive = false }
Kill(ns, death_node) ==
    [i \in DOMAIN ns |-> IF i \in death_node THEN [ns[i] EXCEPT !.alive = FALSE]
                         ELSE ns[i]]

prune(ns, cfg) == Kill(ns, DeathNodes(ns, cfg, 0, {}))

-----------------------------------------------------------------------------
(* Tree::recalculate_weight *)

\* ResetWeight left out
ResetWeightSkipped(ns) == ns

ResetWeight(ns) == [i \in DOMAIN ns |-> [ns[i] EXCEPT !.weight = 1]]

RECURSIVE WeightPassAlive(_, _)
\* WeightPass adding only the weights of alive nodes
WeightPassAlive(ns, node_idx) ==
    IF node_idx < 0 THEN ns
    ELSE IF ns[node_idx].parent # None /\ ns[node_idx].alive
    THEN WeightPassAlive([ns EXCEPT ![ns[node_idx].parent].weight = @ + ns[node_idx].weight],
                         node_idx - 1)
    ELSE WeightPassAlive(ns, node_idx - 1)

RECURSIVE WeightPass(_, _)
\* for node_idx in (0..len).rev(), from node_idx down
WeightPass(ns, node_idx) ==
    IF node_idx < 0 THEN ns
    ELSE IF ns[node_idx].parent # None
    THEN WeightPass([ns EXCEPT ![ns[node_idx].parent].weight = @ + ns[node_idx].weight],
                    node_idx - 1)
    ELSE WeightPass(ns, node_idx - 1)

recalculate_weight(ns) == WeightPass(ResetWeight(ns), Len0(ns) - 1)

-----------------------------------------------------------------------------
(* Tree::new and Tree::sim *)

CellPos(c) == Vec(c[1] * Scale, c[2] * Scale)

\* the root position Tree::new computes
RootPos(cfg) == Vec(cfg.width \div 2, cfg.height \div 10)

\* the sequences of n points over the candidate cells
PointSeqs(n) == {[k \in 1 .. n |-> CellPos(cs[k])] : cs \in [1 .. n -> CandidateCells]}

IdlePrg == [buf |-> <<>>, rows |-> <<>>, sum |-> 0]

NotSampled == [done |-> FALSE, x |-> 0, y |-> 0]

\* no second tree
NoTwin == [nodes |-> <<>>, points |-> <<>>, growing |-> FALSE]

\* Tree::new(config)
Init ==
    /\ config \in Configs
    /\ points \in PointSeqs(config.num_points)
    /\ nodes = [i \in {0} |-> new_root(Vec(config.width \div 2, config.height \div 10))]
    /\ growing = TRUE
    /\ calls = 0
    /\ before = [nodes |-> nodes, points |-> points, growing |-> growing]
    /\ inner = [new_nodes |-> <<>>, nodes |-> nodes]
    /\ iter = 0
    /\ tries = 0
    /\ pc = "tree"
    /\ prg = IdlePrg
    /\ rnd = 0
    /\ sampled = NotSampled
    /\ twin = NoTwin

\* some proposing node has no direction: its near points sum to zero
ZeroSum(ns, pts, cfg) ==
    \E i \in DOMAIN ns :
        /\ Proposes(ns, pts, cfg, i)
        /\ Fold(near_points(ns[i], pts, cfg)) = VZero

\* Grow with the points drained before the proposals are computed
GrowDrainFirst(ns, pts, cfg, zdraw, zeroNaN) ==
    LET drained == DrainFilter(pts, ns, cfg)
        new_nodes == Proposals(ns, drained, cfg, 0, zdraw, zeroNaN)
        accepted == AcceptLoop(ns, new_nodes, 1, FALSE, cfg)
    IN  [nodes |-> recalculate_weight(prune(accepted.nodes, cfg)),
         points |-> drained,
         has_change |-> accepted.has_change,
         new_nodes |-> new_nodes,
         grown |-> accepted.nodes]

\* Grow with recalculate_weight called before prune
GrowReweighFirst(ns, pts, cfg, zdraw, zeroNaN) ==
    LET new_nodes == Proposals(ns, pts, cfg, 0, zdraw, zeroNaN)
        drained == DrainFilter(pts, ns, cfg)
        accepted == AcceptLoop(ns, new_nodes, 1, FALSE, cfg)
        weighed == recalculate_weight(accepted.nodes)
    IN  [nodes |-> prune(weighed, cfg),
         points |-> drained,
         has_change |-> accepted.has_change,
         new_nodes |-> new_nodes,
         grown |-> weighed]

\* the body of sim after the early return
Grow(ns, pts, cfg, zdraw, zeroNaN) ==
    LET new_nodes == Proposals(ns, pts, cfg, 0, zdraw, zeroNaN)
        drained == DrainFilter(pts, ns, cfg)
        accepted == AcceptLoop(ns, new_nodes, 1, FALSE, cfg)
    IN  [nodes |-> recalculate_weight(prune(accepted.nodes, cfg)),
         points |-> drained,
         has_change |-> accepted.has_change,
         new_nodes |-> new_nodes,
         grown |-> accepted.nodes]

\* sim without its early return, as in l.rs
SimUnguarded ==
    /\ pc = "tree"
    /\ calls < MaxCalls
    /\ calls' = calls + 1
    /\ before' = [nodes |-> nodes, points |-> points, growing |-> growing]
    /\ \E zdraw \in [{i \in DOMAIN nodes : Proposes(nodes, points, config, i)} -> ZDraws],
          zeroNaN \in (IF ZeroSum(nodes, points, config) THEN BOOLEAN ELSE {FALSE}) :
            LET r == Grow(nodes, points, config, zdraw, zeroNaN)
            IN  /\ nodes' = r.nodes
                /\ points' = r.points
                /\ growing' = (growing /\ r.has_change)
                /\ inner' = [new_nodes |-> r.new_nodes, nodes |-> r.grown]
                /\ UNCHANGED config
    /\ UNCHANGED <<twin, pc, prgVars, minGrowthVars>>

\* one call of Tree::sim
SimCall ==
    /\ calls < MaxCalls
    /\ calls' = calls + 1
    /\ before' = [nodes |-> nodes, points |-> points, growing |-> growing]
    /\ IF ~growing
       THEN /\ inner' = [new_nodes |-> <<>>, nodes |-> nodes]
            /\ UNCHANGED treeVars
       ELSE \E zdraw \in [{i \in DOMAIN nodes : Proposes(nodes, points, config, i)} -> ZDraws],
               zeroNaN \in (IF ZeroSum(nodes, points, config) THEN BOOLEAN ELSE {FALSE}) :
                LET r == Grow(nodes, points, config, zdraw, zeroNaN)
                IN  /\ nodes' = r.nodes
                    /\ points' = r.points
                    /\ growing' = (growing /\ r.has_change)
                    /\ inner' = [new_nodes |-> r.new_nodes, nodes |-> r.grown]
                    /\ UNCHANGED config
    /\ UNCHANGED <<twin, pc, prgVars, minGrowthVars>>

\* Tree::sim called from main's loop
Sim ==
    /\ pc = "tree"
    /\ SimCall

Next == Sim

Spec == Init /\ [][Next]_vars

-----------------------------------------------------------------------------
(* The growth step run again on a tree whose growing flag is off *)

\* the body of sim after its early return, on a tree that is not growing;
\* growing &= has_change leaves the flag off
Regrow ==
    /\ pc = "tree"
    /\ ~growing
    /\ calls < MaxCalls
    /\ calls' = calls + 1
    /\ before' = [nodes |-> nodes, points |-> points, growing |-> growing]
    /\ \E zdraw \in [{i \in DOMAIN nodes : Proposes(nodes, points, config, i)} -> ZDraws],
          zeroNaN \in (IF ZeroSum(nodes, points, config) THEN BOOLEAN ELSE {FALSE}) :
            LET r == Grow(nodes, points, config, zdraw, zeroNaN)
            IN  /\ nodes' = r.nodes
                /\ points' = r.points
                /\ inner' = [new_nodes |-> r.new_nodes, nodes |-> r.grown]
    /\ UNCHANGED <<twin, growing, config, pc, prgVars, minGrowthVars>>

NextRegrow == Sim \/ Regrow

SpecRegrow == Init /\ [][NextRegrow]_vars

-----------------------------------------------------------------------------
(* Tree::new with four points that make three nodes propose side by side *)

\* the cells the four points are drawn from
OrderCells == {<<1, 3>>, <<5, 4>>, <<1, 2>>, <<3, 1>>}

InitOrder ==
    /\ \E mc \in {1, 2}, ps \in PruneSettings :
          config = ConfigOf(mc, Cardinality(OrderCells), ps[1], ps[2])
    /\ \E cs \in [1 .. config.num_points -> OrderCells] :
          points = [k \in 1 .. config.num_points |-> CellPos(cs[k])]
    /\ nodes = [i \in {0} |-> new_root(RootPos(config))]
    /\ growing = TRUE
    /\ calls = 0
    /\ before = [nodes |-> nodes, points |-> points, growing |-> growing]
    /\ inner = [new_nodes |-> <<>>, nodes |-> nodes]
    /\ iter = 0
    /\ tries = 0
    /\ pc = "tree"
    /\ prg = IdlePrg
    /\ rnd = 0
    /\ sampled = NotSampled
    /\ twin = NoTwin

NextOrder == Sim

SpecOrder == InitOrder /\ [][NextOrder]_vars

-----------------------------------------------------------------------------
(* Tree::new with max_children = 1 and a single point straight above the root *)

\* the values of max_depth tried
ChainDepths == {1, 2, 3}

\* the cells of the root's column that lie above the root and within
\* attraction_dist of it
ChainPoints(cfg) ==
    {p \in {CellPos(<<RootPos(cfg).x \div Scale, y>>) : y \in 0 .. cfg.height \div Scale} :
        /\ p.x = RootPos(cfg).x
        /\ p.y > RootPos(cfg).y
        /\ LengthSqrLess(VSub(p, RootPos(cfg)), cfg.attraction_dist)}

InitChain ==
    /\ \E d \in ChainDepths, ps \in PruneSettings :
          config = [ConfigOf(1, 1, ps[1], ps[2]) EXCEPT !.max_depth = d]
    /\ \E p \in ChainPoints(config) : points = <<p>>
    /\ nodes = [i \in {0} |-> new_root(RootPos(config))]
    /\ growing = TRUE
    /\ calls = 0
    /\ before = [nodes |-> nodes, points |-> points, growing |-> growing]
    /\ inner = [new_nodes |-> <<>>, nodes |-> nodes]
    /\ iter = 0
    /\ tries = 0
    /\ pc = "tree"
    /\ prg = IdlePrg
    /\ rnd = 0
    /\ sampled = NotSampled
    /\ twin = NoTwin

NextChain == Sim

SpecChain == InitChain /\ [][NextChain]_vars

-----------------------------------------------------------------------------
(* Two trees built from the same Config and the same points, simulated in  *)
(* step.  Each draws its own z offsets.                                    *)

\* the cells the points of the two trees are drawn from
TwinCells == {<<4, 4>>, <<1, 2>>, <<7, 0>>}

\* Tree::sim on the tree t = [nodes, points, growing]
SimTree(t, cfg, zdraw, zeroNaN) ==
    IF ~t.growing
    THEN [nodes |-> t.nodes, points |-> t.points, growing |-> t.growing,
          new_nodes |-> <<>>, grown |-> t.nodes]
    ELSE LET r == Grow(t.nodes, t.points, cfg, zdraw, zeroNaN)
         IN  [nodes |-> r.nodes, points |-> r.points,
              growing |-> (t.growing /\ r.has_change),
              new_nodes |-> r.new_nodes, grown |-> r.grown]

InitTwin ==
    /\ \E ps \in PruneSettings : config = ConfigOf(2, Cardinality(TwinCells), ps[1], ps[2])
    /\ \E cs \in [1 .. config.num_points -> TwinCells] :
          points = [k \in 1 .. config.num_points |-> CellPos(cs[k])]
    /\ nodes = [i \in {0} |-> new_root(RootPos(config))]
    /\ growing = TRUE
    /\ calls = 0
    /\ before = [nodes |-> nodes, points |-> points, growing |-> growing]
    /\ inner = [new_nodes |-> <<>>, nodes |-> nodes]
    /\ iter = 0
    /\ tries = 0
    /\ pc = "tree"
    /\ prg = IdlePrg
    /\ rnd = 0
    /\ sampled = NotSampled
    /\ twin = [nodes |-> nodes, points |-> points, growing |-> growing]

\* one call of sim on each tree.  normalized() is a function of its argument:
\* what it returns for the zero vector is the same in both calls
TwinSim ==
    /\ pc = "tree"
    /\ calls < MaxCalls
    /\ calls' = calls + 1
    /\ before' = [nodes |-> nodes, points |-> points, growing |-> growing]
    /\ \E zdraw \in [{i \in DOMAIN nodes : Proposes(nodes, points, config, i)} -> ZDraws],
          zdraw2 \in [{i \in DOMAIN twin.nodes :
                          Proposes(twin.nodes, twin.points, config, i)} -> ZDraws],
          zeroNaN \in (IF \/ ZeroSum(nodes, points, config)
                          \/ ZeroSum(twin.nodes, twin.points, config)
                       THEN BOOLEAN ELSE {FALSE}) :
            LET a == SimTree([nodes |-> nodes, points |-> points, growing |-> growing],
                             config, zdraw, zeroNaN)
                b == SimTree(twin, config, zdraw2, zeroNaN)
            IN  /\ nodes' = a.nodes
                /\ points' = a.points
                /\ growing' = a.growing
                /\ inner' = [new_nodes |-> a.new_nodes, nodes |-> a.grown]
                /\ twin' = [nodes |-> b.nodes, points |-> b.points, growing |-> b.growing]
    /\ UNCHANGED <<config, pc, prgVars, minGrowthVars>>

NextTwin == TwinSim

SpecTwin == InitTwin /\ [][NextTwin]_vars

-----------------------------------------------------------------------------
(* main's growth loop: tree.sim() is called once per frame, for as long as *)
(* the window stays open.                                                  *)

\* the trees the loop runs on: the branching trees of Init and the chains
\* of InitChain
InitFrames == Init \/ InitChain

\* Frame leaving growing as it was
FrameLatchless ==
    /\ pc = "tree"
    /\ calls' = IF calls < MaxCalls THEN calls + 1 ELSE calls
    /\ before' = [nodes |-> nodes, points |-> points, growing |-> growing]
    /\ \E zdraw \in [{i \in DOMAIN nodes : Proposes(nodes, points, config, i)} -> ZDraws],
          zeroNaN \in (IF ZeroSum(nodes, points, config) THEN BOOLEAN ELSE {FALSE}) :
            LET a == SimTree([nodes |-> nodes, points |-> points, growing |-> growing],
                             config, zdraw, zeroNaN)
            IN  /\ nodes' = a.nodes
                /\ points' = a.points
                /\ growing' = growing
                /\ inner' = [new_nodes |-> a.new_nodes, nodes |-> a.grown]
    /\ UNCHANGED <<twin, config, pc, prgVars, minGrowthVars>>

\* one frame of the loop: tree.sim().  calls stops counting at MaxCalls
Frame ==
    /\ pc = "tree"
    /\ calls' = IF calls < MaxCalls THEN calls + 1 ELSE calls
    /\ before' = [nodes |-> nodes, points |-> points, growing |-> growing]
    /\ \E zdraw \in [{i \in DOMAIN nodes : Proposes(nodes, points, config, i)} -> ZDraws],
          zeroNaN \in (IF ZeroSum(nodes, points, config) THEN BOOLEAN ELSE {FALSE}) :
            LET a == SimTree([nodes |-> nodes, points |-> points, growing |-> growing],
                             config, zdraw, zeroNaN)
            IN  /\ nodes' = a.nodes
                /\ points' = a.points
                /\ growing' = a.growing
                /\ inner' = [new_nodes |-> a.new_nodes, nodes |-> a.grown]
    /\ UNCHANGED <<twin, config, pc, prgVars, minGrowthVars>>

NextFrames == Frame

\* the loop body runs again and again: every frame calls sim
SpecFrames == InitFrames /\ [][NextFrames]_vars /\ WF_vars(Frame)

-----------------------------------------------------------------------------
(* Tree::new_min_growth *)

\* the Configs new_min_growth is called with: without points nothing grows
MinGrowthConfigs ==
    {ConfigOf(2, np, ps[1], ps[2]) : np \in {0, 2}, ps \in PruneSettings}
        \cup {[ConfigOf(1, 2, ps[1], ps[2]) EXCEPT !.max_depth = 1] :
                  ps \in {q \in PruneSettings : q[1] = 0}}

\* let mut tree = Self::new(config), for any iter
InitMinGrowth ==
    /\ config \in MinGrowthConfigs
    /\ iter \in 0 .. MaxIter
    /\ points \in PointSeqs(config.num_points)
    /\ nodes = [i \in {0} |-> new_root(RootPos(config))]
    /\ growing = TRUE
    /\ calls = 0
    /\ before = [nodes |-> nodes, points |-> points, growing |-> growing]
    /\ inner = [new_nodes |-> <<>>, nodes |-> nodes]
    /\ tries = 0
    /\ pc = "attempt"
    /\ prg = IdlePrg
    /\ rnd = 0
    /\ sampled = NotSampled
    /\ twin = NoTwin

\* for _ in 0..iter { tree.sim(); }: calls counts the sim calls of the attempt
MinGrowthSim ==
    /\ pc = "attempt"
    /\ calls < iter
    /\ SimCall

\* MinGrowthRetry going on with the points the failed attempt left
MinGrowthRetryKeepsPoints ==
    /\ pc = "attempt"
    /\ calls = iter
    /\ Len0(nodes) < iter
    /\ tries < MaxTries
    /\ tries' = tries + 1
    /\ nodes' = [i \in {0} |-> new_root(RootPos(config))]
    /\ growing' = TRUE
    /\ calls' = 0
    /\ before' = [nodes |-> nodes', points |-> points, growing |-> growing']
    /\ inner' = [new_nodes |-> <<>>, nodes |-> nodes']
    /\ UNCHANGED <<twin, points, config, iter, pc, prgVars>>

\* MinGrowthRetry discarding trees of up to iter + 1 nodes
MinGrowthRetryOneMore ==
    /\ pc = "attempt"
    /\ calls = iter
    /\ Len0(nodes) < iter + 2
    /\ tries < MaxTries
    /\ tries' = tries + 1
    /\ points' \in PointSeqs(config.num_points)
    /\ nodes' = [i \in {0} |-> new_root(RootPos(config))]
    /\ growing' = TRUE
    /\ calls' = 0
    /\ before' = [nodes |-> nodes', points |-> points', growing |-> growing']
    /\ inner' = [new_nodes |-> <<>>, nodes |-> nodes']
    /\ UNCHANGED <<twin, config, iter, pc, prgVars>>

\* tree.nodes.len() < iter: Self::new_min_growth(config, iter) starts over
\* with Self::new(config)
MinGrowthRetry ==
    /\ pc = "attempt"
    /\ calls = iter
    /\ Len0(nodes) < iter
    /\ tries < MaxTries
    /\ tries' = tries + 1
    /\ points' \in PointSeqs(config.num_points)
    /\ nodes' = [i \in {0} |-> new_root(RootPos(config))]
    /\ growing' = TRUE
    /\ calls' = 0
    /\ before' = [nodes |-> nodes', points |-> points', growing |-> growing']
    /\ inner' = [new_nodes |-> <<>>, nodes |-> nodes']
    /\ UNCHANGED <<twin, config, iter, pc, prgVars>>

\* MinGrowthReturn whatever the number of nodes
MinGrowthReturnAny ==
    /\ pc = "attempt"
    /\ calls = iter
    /\ pc' = "returned"
    /\ UNCHANGED <<twin, treeVars, calls, before, inner, minGrowthVars, prgVars>>

\* else { tree }
MinGrowthReturn ==
    /\ pc = "attempt"
    /\ calls = iter
    /\ Len0(nodes) >= iter
    /\ pc' = "returned"
    /\ UNCHANGED <<twin, treeVars, calls, before, inner, minGrowthVars, prgVars>>

NextMinGrowth == MinGrowthSim \/ MinGrowthRetry \/ MinGrowthReturn

SpecMinGrowth == InitMinGrowth /\ [][NextMinGrowth]_vars

-----------------------------------------------------------------------------
(* Tree::recalculate_weight on any arena whose parents precede their children *)

\* the weights a node may carry when recalculate_weight starts
OldWeights == {1, 3}

ArenaOf(parent, alive, weight) ==
    [i \in DOMAIN parent |->
        [alive |-> alive[i], pos |-> Vec(i * Scale, i * Scale), parent |-> parent[i],
         child_count |-> Cardinality({c \in DOMAIN parent : parent[c] = i}),
         depth |-> 0, weight |-> weight[i], z |-> 0]]

\* the parent fields of the arenas of n nodes: None for node 0, a smaller index
\* for every other node
ParentMaps(n) ==
    {p \in [0 .. n - 1 -> {None} \cup (0 .. n - 2)] :
        /\ p[0] = None
        /\ \A i \in 1 .. n - 1 : p[i] # None /\ p[i] < i}

\* the arenas of up to MaxArena nodes, with any alive flags and old weights
InitWeight ==
    /\ \E n \in 1 .. MaxArena :
          \E p \in ParentMaps(n), a \in [0 .. n - 1 -> BOOLEAN],
             w \in [0 .. n - 1 -> OldWeights] :
              nodes = ArenaOf(p, a, w)
    /\ config = ConfigOf(1, 0, 0, <<1, 5>>)
    /\ points = <<>>
    /\ growing = FALSE
    /\ calls = 0
    /\ before = [nodes |-> nodes, points |-> points, growing |-> growing]
    /\ inner = [new_nodes |-> <<>>, nodes |-> nodes]
    /\ iter = 0
    /\ tries = 0
    /\ pc = "weight"
    /\ prg = IdlePrg
    /\ rnd = 0
    /\ sampled = NotSampled
    /\ twin = NoTwin

\* one call of recalculate_weight
Reweigh ==
    /\ pc = "weight"
    /\ pc' = "weighed"
    /\ before' = [nodes |-> nodes, points |-> points, growing |-> growing]
    /\ nodes' = recalculate_weight(nodes)
    /\ UNCHANGED <<twin, points, growing, config, calls, inner, prgVars, minGrowthVars>>

NextWeight == Reweigh

SpecWeight == InitWeight /\ [][NextWeight]_vars

-----------------------------------------------------------------------------
(* Tree::prune on any arena whose parents precede their children *)

\* the weights a node may carry when prune starts
PruneWeights == {1, 3, 6}

\* the positions of the nodes: 1.0 apart
PrunePositions == {Vec(0, 0), Vec(Scale, 0)}

\* the pairs <<prune_pow, prune_size_ratio>> prune is run with
PruneOnlySettings == PruneSettings \cup {<<0, <<1, 1>>>>}

PruneArenaOf(parent, alive, weight, pos) ==
    [i \in DOMAIN parent |->
        [alive |-> alive[i], pos |-> pos[i], parent |-> parent[i],
         child_count |-> Cardinality({c \in DOMAIN parent : parent[c] = i}),
         depth |-> 0, weight |-> weight[i], z |-> 0]]

\* the arenas of up to MaxPruneArena nodes, with any alive flags, weights and
\* positions
InitPrune ==
    /\ \E n \in 1 .. MaxPruneArena :
          \E p \in ParentMaps(n), a \in [0 .. n - 1 -> BOOLEAN],
             w \in [0 .. n - 1 -> PruneWeights], q \in [0 .. n - 1 -> PrunePositions] :
              nodes = PruneArenaOf(p, a, w, q)
    /\ \E ps \in PruneOnlySettings : config = ConfigOf(1, 0, ps[1], ps[2])
    /\ points = <<>>
    /\ growing = TRUE
    /\ calls = 0
    /\ before = [nodes |-> nodes, points |-> points, growing |-> growing]
    /\ inner = [new_nodes |-> <<>>, nodes |-> nodes]
    /\ iter = 0
    /\ tries = 0
    /\ pc = "prune"
    /\ prg = IdlePrg
    /\ rnd = 0
    /\ sampled = NotSampled
    /\ twin = NoTwin

\* one call of prune
Prune ==
    /\ pc = "prune"
    /\ pc' = "pruned"
    /\ before' = [nodes |-> nodes, points |-> points, growing |-> growing]
    /\ nodes' = prune(nodes, config)
    /\ UNCHANGED <<twin, points, growing, config, calls, inner, prgVars, minGrowthVars>>

NextPrune == Prune

SpecPrune == InitPrune /\ [][NextPrune]_vars

-----------------------------------------------------------------------------
(* SimplexDensityPRG *)

RECURSIVE SumTo(_, _)
\* f[0] + .. + f[n - 1]
SumTo(f, n) == IF n = 0 THEN 0 ELSE SumTo(f, n - 1) + f[n - 1]

\* SimplexDensityPRG::new with the cell values buf_val it computed: rows[x]
\* and sum are accumulated from them
PrgNew(buf, width, height) ==
    LET rows == [x \in 0 .. width - 1 |-> SumTo(buf[x], height)]
    IN  [buf |-> buf, rows |-> rows, sum |-> SumTo(rows, width)]

RECURSIVE WalkXStrict(_, _, _)
\* WalkX going on only while rand > rows[x]
WalkXStrict(p, x, rand) ==
    IF x < Len0(p.buf) /\ rand > p.rows[x] * RandDenom
    THEN WalkXStrict(p, x + 1, rand - p.rows[x] * RandDenom)
    ELSE [x |-> x, rand |-> rand]

RECURSIVE WalkX(_, _, _)
\* the first while loop: from column x with rand left.  rand counts in
\* 1 / RandDenom of a density unit
WalkX(p, x, rand) ==
    IF x < Len0(p.buf) /\ rand >= p.rows[x] * RandDenom
    THEN WalkX(p, x + 1, rand - p.rows[x] * RandDenom)
    ELSE [x |-> x, rand |-> rand]

RECURSIVE WalkYStrict(_, _, _, _)
\* WalkY going on only while rand > buf[x][y]
WalkYStrict(p, x, y, rand) ==
    IF y < Len0(p.buf[x]) /\ rand > p.buf[x][y] * RandDenom
    THEN WalkYStrict(p, x, y + 1, rand - p.buf[x][y] * RandDenom)
    ELSE y

RECURSIVE WalkY(_, _, _, _)
\* the second while loop, in column x
WalkY(p, x, y, rand) ==
    IF y < Len0(p.buf[x]) /\ rand >= p.buf[x][y] * RandDenom
    THEN WalkY(p, x, y + 1, rand - p.buf[x][y] * RandDenom)
    ELSE y

\* sample, with r / RandDenom the value rand.gen::<f32>() returned
sample(p, r) ==
    LET w == WalkX(p, 0, r * p.sum)
        x == IF w.x = Len0(p.buf) THEN w.x - 1 ELSE w.x
    IN  [done |-> TRUE, x |-> x, y |-> WalkY(p, x, 0, w.rand)]

\* the values buf_val takes
Densities == {0, 1, 2}

\* the maps of up to MaxSide x MaxSide cells, and a drawn value
InitSample ==
    /\ \E width \in 1 .. MaxSide, height \in 1 .. MaxSide :
          \E b \in [0 .. width - 1 -> [0 .. height - 1 -> Densities]] :
              prg = PrgNew(b, width, height)
    /\ rnd \in 0 .. RandDenom - 1
    /\ sampled = NotSampled
    /\ pc = "sample"
    /\ config = ConfigOf(1, 0, 0, <<1, 5>>)
    /\ nodes = [i \in {0} |-> new_root(Vec(config.width \div 2, config.height \div 10))]
    /\ points = <<>>
    /\ growing = TRUE
    /\ calls = 0
    /\ before = [nodes |-> nodes, points |-> points, growing |-> growing]
    /\ inner = [new_nodes |-> <<>>, nodes |-> nodes]
    /\ iter = 0
    /\ tries = 0
    /\ twin = NoTwin

\* one call of sample
Sample ==
    /\ pc = "sample"
    /\ pc' = "sampled"
    /\ sampled' = sample(prg, rnd)
    /\ UNCHANGED <<twin, treeVars, calls, before, inner, minGrowthVars, prg, rnd>>

NextSample == Sample

SpecSample == InitSample /\ [][NextSample]_vars

-----------------------------------------------------------------------------
(* The claims *)

ChildrenOf(ns, i) == {c \in DOMAIN ns : ns[c].parent = i}

RECURSIVE SumWeights(_, _)
SumWeights(ns, S) ==
    IF S = {} THEN 0
    ELSE LET c == CHOOSE c \in S : TRUE
         IN  ns[c].weight + SumWeights(ns, S \ {c})

\* a and b are closer than node_min_dist
Closer(a, b, cfg) == LengthSqrLess(VSub(a.pos, b.pos), cfg.node_min_dist)

\* C1: from Tree::new on and after any sim calls, node 0 is the only node
\* without a parent and every other node's parent is a smaller index.
C1_SingleRootParentsBelow ==
    /\ nodes[0].parent = None
    /\ \A i \in DOMAIN nodes \ {0} : nodes[i].parent \in 0 .. i - 1

\* a tree that grew over several cycles, with a node below a non-root node
C1_Witness ==
    /\ pc = "tree"
    /\ calls >= 2
    /\ \E i \in DOMAIN nodes : nodes[i].parent # None /\ nodes[i].parent > 0

\* C2: after recalculate_weight on any arena whose parents precede their
\* children, every node's weight is 1 plus the weights of its direct children,
\* dead children counted like alive ones.
C2_WeightOnePlusChildren ==
    pc = "weighed" =>
        \A i \in DOMAIN nodes :
            nodes[i].weight = 1 + SumWeights(nodes, ChildrenOf(nodes, i))

\* a reweighed arena with a dead child beside another child, a grandchild,
\* and a stale weight overwritten
C2_Witness ==
    /\ pc = "weighed"
    /\ \E i, c, d \in DOMAIN nodes :
        /\ c # d /\ nodes[c].parent = i /\ nodes[d].parent = i
        /\ ~nodes[c].alive /\ nodes[d].alive
        /\ \E g \in DOMAIN nodes : nodes[g].parent = c
        /\ before.nodes[c].weight = 3 /\ nodes[c].weight = 2

\* C3: at every cycle boundary every node has weight >= 1 and the root's
\* weight is the number of nodes, alive or dead.
C3_RootWeightIsLen ==
    /\ \A i \in DOMAIN nodes : nodes[i].weight >= 1
    /\ nodes[0].weight = Len0(nodes)

\* a boundary after a no-op call on a tree with dead nodes
C3_Witness ==
    /\ pc = "tree"
    /\ calls >= 3
    /\ ~before.growing
    /\ Len0(nodes) >= 3
    /\ \E i \in DOMAIN nodes : ~nodes[i].alive

\* C4: a node that is dead stays dead across every step.
C4_AliveMonotone ==
    [][\A i \in DOMAIN nodes :
          ~nodes[i].alive => (i \in DOMAIN nodes' /\ ~nodes'[i].alive)]_vars

\* a growth cycle that accepted a node ran on an arena holding a dead node
C4_Witness ==
    /\ pc = "tree"
    /\ \E i \in DOMAIN before.nodes : ~before.nodes[i].alive
    /\ before.growing
    /\ Len0(nodes) > Len0(before.nodes)

C6_GrowingIffAccepted ==
    calls > 0 =>
        /\ before.growing => (growing <=> Len0(nodes) > Len0(before.nodes))
        /\ ~before.growing => ~growing
        /\ (calls = 1 /\ config.num_points = 0) => (Len0(nodes) = 1 /\ ~growing)

\* a tree that grew, then met a cycle in which nodes proposed and none was accepted
C6_Witness ==
    /\ pc = "tree"
    /\ calls >= 2
    /\ before.growing /\ ~growing
    /\ Len0(nodes) > 1
    /\ \E i \in DOMAIN before.nodes :
          Proposes(before.nodes, before.points, config, i)

\* C7: a sim call that finds growing false changes nothing of the arena,
\* the points and the flag.
C7_NoopWhenStagnant ==
    (calls > 0 /\ ~before.growing) =>
        /\ nodes = before.nodes
        /\ points = before.points
        /\ growing = before.growing

\* a no-op call on a grown tree that still has points left
C7_Witness ==
    /\ pc = "tree"
    /\ calls > 0 /\ ~before.growing
    /\ Len0(nodes) > 1
    /\ points # <<>>

\* C8: no step shortens the arena or changes the position, parent, depth or
\* z of a node that is in it, and no step changes the Config.
C8_AppendOnly ==
    [][/\ Len0(nodes') >= Len0(nodes)
       /\ \A i \in DOMAIN nodes :
            /\ i \in DOMAIN nodes'
            /\ nodes'[i].pos = nodes[i].pos
            /\ nodes'[i].parent = nodes[i].parent
            /\ nodes'[i].depth = nodes[i].depth
            /\ nodes'[i].z = nodes[i].z
       /\ config' = config]_vars

\* a cycle that appended a node and changed alive, child_count and weight
\* of nodes that were there
C8_Witness ==
    /\ pc = "tree"
    /\ Len0(nodes) > Len0(before.nodes)
    /\ \E i, j, k \in DOMAIN before.nodes :
        /\ nodes[i].alive # before.nodes[i].alive
        /\ nodes[j].child_count # before.nodes[j].child_count
        /\ nodes[k].weight # before.nodes[k].weight
    /\ \E i \in DOMAIN before.nodes : nodes[i].z > 0

\* the map's whole mass is in cell (x0, y0)
SingleMass(p, x0, y0) ==
    /\ p.buf[x0][y0] > 0
    /\ \A x \in DOMAIN p.buf : \A y \in DOMAIN p.buf[x] :
          (x # x0 \/ y # y0) => p.buf[x][y] = 0

\* C9: on a map whose whole mass is in one cell (x0, y0), sample returns
\* (x0, y0) for every drawn value.
C9_SingleCell ==
    pc = "sampled" =>
        \A x0 \in DOMAIN prg.buf : \A y0 \in DOMAIN prg.buf[x0] :
            SingleMass(prg, x0, y0) => (sampled.x = x0 /\ sampled.y = y0)

\* the mass is in the last cell of a 2 x 2 map and the largest value is drawn
C9_Witness ==
    /\ pc = "sampled"
    /\ Len0(prg.buf) = 2 /\ Len0(prg.buf[1]) = 2
    /\ SingleMass(prg, 1, 1)
    /\ rnd = RandDenom - 1
    /\ sampled.x = 1 /\ sampled.y = 1

\* C10: for every map with width and height >= 1 and non-negative densities,
\* a total of 0 included, sample returns a valid cell: x < width, y < height.
C10_SampleInRange ==
    pc = "sampled" =>
        /\ sampled.x \in 0 .. Len0(prg.buf) - 1
        /\ sampled.y \in 0 .. Len0(prg.buf[sampled.x]) - 1

\* C11: with max_children = 1, max_depth = D and a single attraction point
\* straight above the root within attraction_dist, after any number of cycles
\* the arena is a single chain (node i > 0 has parent i - 1) of at most D
\* descendants, every node has the root's x coordinate, and the root's weight
\* is the number of nodes.
C11_SingleChain ==
    /\ \A i \in DOMAIN nodes \ {0} : nodes[i].parent = i - 1
    /\ Len0(nodes) - 1 <= config.max_depth
    /\ \A i \in DOMAIN nodes : ~nodes[i].pos.nan /\ nodes[i].pos.x = nodes[0].pos.x
    /\ nodes[0].weight = Len0(nodes)

\* the chain stopped at the depth limit: the deepest node proposed a child
\* that the limit turned down
C11_Witness ==
    /\ pc = "tree"
    /\ Len0(nodes) - 1 = config.max_depth
    /\ before.growing /\ ~growing
    /\ \E k \in DOMAIN inner.new_nodes : inner.new_nodes[k].depth > config.max_depth

\* C12: at every cycle boundary every descendant of a dead node is dead:
\* every alive node other than the root has an alive parent.
C12_DeadSubtrees ==
    \A i \in DOMAIN nodes :
        (nodes[i].alive /\ nodes[i].parent # None) => nodes[nodes[i].parent].alive

\* a cycle appended a node to an arena that held a dead node with a dead
\* child, and an alive node other than the root is left
C12_Witness ==
    /\ pc = "tree"
    /\ Len0(nodes) > Len0(before.nodes)
    /\ \E i, c \in DOMAIN before.nodes :
          ~before.nodes[i].alive /\ before.nodes[c].parent = i /\ ~before.nodes[c].alive
    /\ \E j \in DOMAIN nodes \ {0} : nodes[j].alive

RECURSIVE IsSubSeq(_, _)
\* s is t with some elements left out
IsSubSeq(s, t) ==
    IF s = <<>> THEN TRUE
    ELSE IF t = <<>> THEN FALSE
    ELSE IF Head(s) = Head(t) THEN IsSubSeq(Tail(s), Tail(t))
    ELSE IsSubSeq(s, Tail(t))

\* p is strictly within kill_dist of node n
InKillDist(p, n, cfg) == LengthSqrLess(VSub(p, n.pos), cfg.kill_dist)

\* C13: the points after any sim call are the points before it with some left
\* out, and after a call that was not a no-op no remaining point is strictly
\* within kill_dist of a node, alive or dead, of the arena the call started
\* with.
C13_PointsOnlyRemoved ==
    /\ IsSubSeq(points, before.points)
    /\ (calls > 0 /\ before.growing) =>
          \A k \in DOMAIN points : \A i \in DOMAIN before.nodes :
              ~InKillDist(points[k], before.nodes[i], config)

\* a cycle removed a point that was in kill_dist of a dead node and of no
\* alive node, and left another point
C13_Witness ==
    /\ pc = "tree"
    /\ calls > 0 /\ before.growing
    /\ points # <<>>
    /\ \E k \in DOMAIN before.points :
          /\ \A j \in DOMAIN points : points[j] # before.points[k]
          /\ \E i \in DOMAIN before.nodes :
                ~before.nodes[i].alive /\ InKillDist(before.points[k], before.nodes[i], config)
          /\ \A i \in DOMAIN before.nodes :
                before.nodes[i].alive => ~InKillDist(before.points[k], before.nodes[i], config)

\* the tree Tree::new(cfg) returns, whatever points it drew
FreshTree(ns, pts, g, cfg) ==
    /\ ns = [i \in {0} |-> new_root(RootPos(cfg))]
    /\ Len(pts) = cfg.num_points
    /\ g = TRUE

\* C14: the tree new_min_growth(config, iter) returns has received exactly
\* iter sim calls since it was a fresh single-root tree with a fresh draw of
\* num_points points, and has at least iter nodes; an attempt is discarded
\* only with fewer than iter nodes after iter sim calls, and the next
\* attempt starts from a fresh tree that keeps nothing of it.
C14_MinGrowth ==
    /\ [](pc = "returned" => (calls = iter /\ Len0(nodes) >= iter))
    /\ [](calls = 0 => FreshTree(nodes, points, growing, config))
    /\ [][\/ /\ calls' = calls + 1
              /\ pc' = "attempt" /\ tries' = tries
           \/ /\ tries' = tries + 1
              /\ calls = iter /\ Len0(nodes) < iter
              /\ calls' = 0
              /\ FreshTree(nodes', points', growing', config')
           \/ /\ pc' = "returned"
              /\ UNCHANGED <<treeVars, calls, tries>>]_vars

\* a tree of at least iter >= 2 nodes is returned after an attempt was
\* discarded
C14_Witness ==
    /\ pc = "returned"
    /\ tries >= 1
    /\ iter >= 2
    /\ Len0(nodes) >= iter

\* n.weight < prune_size_ratio * c.weight and dist(n, c) < c.weight ^ prune_pow
SmallAndNear(n, c, cfg) ==
    /\ n.weight * cfg.prune_size_ratio[2] < cfg.prune_size_ratio[1] * c.weight
    /\ ~n.pos.nan /\ ~c.pos.nan
    /\ (n.pos.x - c.pos.x) * (n.pos.x - c.pos.x) + (n.pos.y - c.pos.y) * (n.pos.y - c.pos.y)
         < (Pow(c.weight, cfg.prune_pow) * Scale) * (Pow(c.weight, cfg.prune_pow) * Scale)

\* the set D of the nodes of ns that are small and near some node
DirectSet(ns, cfg) == {n \in DOMAIN ns : \E c \in DOMAIN ns : SmallAndNear(ns[n], ns[c], cfg)}

RECURSIVE IsDescendant(_, _, _)
\* node i of ns lies below node a
IsDescendant(ns, i, a) ==
    /\ ns[i].parent # None
    /\ (ns[i].parent = a \/ IsDescendant(ns, ns[i].parent, a))

\* D together with all descendants of nodes in D
DeadSet(ns, cfg) ==
    DirectSet(ns, cfg)
        \cup {i \in DOMAIN ns : \E a \in DirectSet(ns, cfg) : IsDescendant(ns, i, a)}

\* C15: one prune call sets to dead exactly the nodes of D, computed from the
\* weights and positions prune starts with and whatever the alive flags, and
\* all descendants of nodes in D; it changes no other node and no field
\* other than alive.
C15_PruneSnapshot ==
    pc = "pruned" =>
        /\ DOMAIN nodes = DOMAIN before.nodes
        /\ \A i \in DOMAIN nodes :
              nodes[i] = IF i \in DeadSet(before.nodes, config)
                         THEN [before.nodes[i] EXCEPT !.alive = FALSE]
                         ELSE before.nodes[i]

\* prune killed a node that is only below a node of D, killed a node of D
\* whose every big neighbour was dead, and left a node as it was
C15_Witness ==
    /\ pc = "pruned"
    /\ \E i \in DOMAIN nodes :
          /\ before.nodes[i].alive /\ ~nodes[i].alive
          /\ i \notin DirectSet(before.nodes, config)
    /\ \E n \in DirectSet(before.nodes, config) :
          /\ before.nodes[n].alive
          /\ \A c \in DOMAIN nodes :
                SmallAndNear(before.nodes[n], before.nodes[c], config) => ~before.nodes[c].alive
    /\ \E j \in DOMAIN nodes : j \notin DeadSet(before.nodes, config)

\* no proposal of the cycle that starts from (ns, pts) and no node of ns
\* rests on normalized() of a zero vector
NoZeroDirection(ns, pts, cfg) ==
    /\ ~ZeroSum(ns, pts, cfg)
    /\ \A i \in DOMAIN ns : ~ns[i].pos.nan

\* C16: once a growth cycle has accepted no node (growing is off), running
\* the growth step again accepts no proposal in any later cycle.  Stated for
\* the cycles in which no direction sum is zero, so that it does not rest on
\* what normalized() returns there.
C16_StagnantForGood ==
    [][(/\ ~growing
        /\ NoZeroDirection(before.nodes, before.points, config)
        /\ NoZeroDirection(nodes, points, config))
           => Len0(nodes') = Len0(nodes)]_vars

\* the proposal prop of the latest cycle was accepted: its parent has a
\* child among the nodes the cycle appended
WasAccepted(prop) ==
    \E i \in DOMAIN nodes \ DOMAIN before.nodes :
        nodes[i].parent = prop.parent /\ nodes[i].pos = prop.pos

\* the proposal passes the depth, vertical-growth and spacing checks against
\* the arena the cycle started with
PassesBefore(prop) == ~Rejected(before.nodes, prop, config)

\* the nodes a cycle appends are in ascending order of their parents
AppendedInOrder ==
    \A i, j \in DOMAIN nodes \ DOMAIN before.nodes :
        i < j => nodes[i].parent < nodes[j].parent

\* C17: if two proposals of one cycle lie within node_min_dist of each other
\* and each passes the checks against the pre-cycle arena, the one of the
\* lower-index parent is accepted and the other is rejected; accepted nodes
\* appear in the arena in the order of their parents.
C17_LowerIndexWins ==
    /\ \A k, l \in DOMAIN inner.new_nodes :
          (/\ k < l
           /\ Closer(inner.new_nodes[k], inner.new_nodes[l], config)
           /\ PassesBefore(inner.new_nodes[k])
           /\ PassesBefore(inner.new_nodes[l]))
              => /\ WasAccepted(inner.new_nodes[k])
                 /\ ~WasAccepted(inner.new_nodes[l])
    /\ AppendedInOrder

\* C17 amended: of two such proposals never both are accepted; the one of the
\* lower-index parent is accepted unless it lies within node_min_dist of a
\* proposal of a still lower-index parent accepted in the same cycle, and if
\* it is accepted the other is rejected; accepted nodes appear in the arena
\* in the order of their parents.
C17_EarlierAcceptedWins ==
    /\ \A k, l \in DOMAIN inner.new_nodes :
          (/\ k < l
           /\ Closer(inner.new_nodes[k], inner.new_nodes[l], config)
           /\ PassesBefore(inner.new_nodes[k])
           /\ PassesBefore(inner.new_nodes[l]))
              => /\ WasAccepted(inner.new_nodes[k]) => ~WasAccepted(inner.new_nodes[l])
                 /\ ~WasAccepted(inner.new_nodes[k]) =>
                        \E j \in 1 .. k - 1 :
                            /\ WasAccepted(inner.new_nodes[j])
                            /\ Closer(inner.new_nodes[j], inner.new_nodes[k], config)
    /\ AppendedInOrder

\* of three proposals that pass the checks against the pre-cycle arena the
\* first was accepted, the second rejected for being too close to the
\* first, and the third, too close to the second only, accepted
C17_Witness ==
    /\ pc = "tree"
    /\ \E j, k, l \in DOMAIN inner.new_nodes :
          /\ j < k /\ k < l
          /\ PassesBefore(inner.new_nodes[j])
          /\ PassesBefore(inner.new_nodes[k])
          /\ PassesBefore(inner.new_nodes[l])
          /\ Closer(inner.new_nodes[j], inner.new_nodes[k], config)
          /\ Closer(inner.new_nodes[k], inner.new_nodes[l], config)
          /\ WasAccepted(inner.new_nodes[j])
          /\ ~WasAccepted(inner.new_nodes[k])
          /\ WasAccepted(inner.new_nodes[l])

\* the positions node i of the pre-cycle arena can propose, computed from the
\* pre-cycle nodes and the points pts
ProposedPos(i, pts) ==
    {Proposal(before.nodes, pts, config, i, <<0, 4>>, b).pos : b \in BOOLEAN}

\* C18: in a cycle that is not a no-op there is one proposal for every node
\* that was eligible at cycle start with a point within attraction_dist, its
\* position computed from the nodes and points as they were at cycle start;
\* every node the cycle appends is such a proposal, hangs below a pre-cycle
\* node and has child_count 0 at the end of the cycle.
C18_ProposalsFromSnapshot ==
    (calls > 0 /\ before.growing) =>
        /\ Len(inner.new_nodes) =
              Cardinality({i \in DOMAIN before.nodes :
                              Proposes(before.nodes, before.points, config, i)})
        /\ \A k \in DOMAIN inner.new_nodes :
              /\ inner.new_nodes[k].parent \in DOMAIN before.nodes
              /\ Proposes(before.nodes, before.points, config, inner.new_nodes[k].parent)
              /\ inner.new_nodes[k].pos
                    \in ProposedPos(inner.new_nodes[k].parent, before.points)
        /\ \A i \in DOMAIN nodes \ DOMAIN before.nodes :
              /\ nodes[i].parent \in DOMAIN before.nodes
              /\ nodes[i].child_count = 0
              /\ nodes[i].pos \in ProposedPos(nodes[i].parent, before.points)

\* a cycle removed a point and appended a node whose position is not what
\* the remaining points would have given, and another node whose parent
\* has no remaining point in reach
C18_Witness ==
    /\ pc = "tree"
    /\ calls > 0 /\ before.growing
    /\ points # before.points
    /\ \E i \in DOMAIN nodes \ DOMAIN before.nodes :
          /\ Proposes(before.nodes, points, config, nodes[i].parent)
          /\ nodes[i].pos \notin ProposedPos(nodes[i].parent, points)
    /\ \E i \in DOMAIN nodes \ DOMAIN before.nodes :
          ~Proposes(before.nodes, points, config, nodes[i].parent)

\* every weight of ns is 1 plus the weights of the node's children in ns
WeightsOf(ns) ==
    \A i \in DOMAIN ns : ns[i].weight = 1 + SumWeights(ns, ChildrenOf(ns, i))

\* C19: in a sim call that is not a no-op, prune finds every pre-cycle node
\* with the weight the previous cycle's recalculate_weight gave it (the
\* nodes of this cycle not counted) and every node of this cycle with weight
\* 1, and decides on these weights; the weights at the end of the call are
\* recomputed after it, over all nodes.
C19_GrowPruneReweigh ==
    (calls > 0 /\ before.growing) =>
        /\ WeightsOf(before.nodes)
        /\ \A i \in DOMAIN before.nodes : inner.nodes[i].weight = before.nodes[i].weight
        /\ \A i \in DOMAIN inner.nodes \ DOMAIN before.nodes : inner.nodes[i].weight = 1
        /\ DOMAIN nodes = DOMAIN inner.nodes
        /\ \A i \in DOMAIN nodes :
              nodes[i].alive = (inner.nodes[i].alive /\ i \notin DeadSet(inner.nodes, config))
        /\ WeightsOf(nodes)

\* a cycle after the first appended a node to a tree of several nodes, and
\* its prune, on the old weights, marked other nodes than it would have on
\* the recomputed weights
C19_Witness ==
    /\ pc = "tree"
    /\ calls > 1 /\ before.growing
    /\ Len0(before.nodes) > 1
    /\ Len0(nodes) > Len0(before.nodes)
    /\ DeadSet(inner.nodes, config) # DeadSet(nodes, config)

\* C20: at every cycle boundary each node's child_count is the number of
\* nodes whose parent it is, and at most max_children; within one cycle a
\* node gains at most one child, and only if it was alive with child_count
\* below max_children at cycle start.
C20_ChildCount ==
    /\ \A i \in DOMAIN nodes :
          /\ nodes[i].child_count = Cardinality(ChildrenOf(nodes, i))
          /\ nodes[i].child_count <= config.max_children
    /\ \A i \in DOMAIN before.nodes :
          /\ Cardinality(ChildrenOf(nodes, i)) - Cardinality(ChildrenOf(before.nodes, i))
                \in {0, 1}
          /\ Cardinality(ChildrenOf(nodes, i)) > Cardinality(ChildrenOf(before.nodes, i))
                => /\ before.nodes[i].alive
                   /\ before.nodes[i].child_count < config.max_children

\* in one cycle a node gained a child while a node that was alive with
\* max_children children and a point within attraction_dist gained none
C20_Witness ==
    /\ pc = "tree"
    /\ \E j \in DOMAIN before.nodes :
          nodes[j].child_count = before.nodes[j].child_count + 1
    /\ \E i \in DOMAIN before.nodes :
          /\ before.nodes[i].alive
          /\ before.nodes[i].child_count = config.max_children
          /\ near_points(before.nodes[i], before.points, config) # <<>>

\* C21: the root has depth 0, every other node's depth is its parent's depth
\* plus 1, and no node of the arena has a depth above max_depth.
C21_Depth ==
    /\ nodes[0].depth = 0
    /\ \A i \in DOMAIN nodes \ {0} : nodes[i].depth = nodes[nodes[i].parent].depth + 1
    /\ \A i \in DOMAIN nodes : nodes[i].depth <= config.max_depth

\* a node at depth max_depth proposed a child, which the depth limit turned
\* down, in a cycle that appended another node
C21_Witness ==
    /\ pc = "tree"
    /\ \E k \in DOMAIN inner.new_nodes : inner.new_nodes[k].depth > config.max_depth
    /\ \E i \in DOMAIN nodes : nodes[i].depth = config.max_depth
    /\ Len0(nodes) > Len0(before.nodes)

\* the density of the cells before (x, y) in column-major order: all cells of
\* the columns before x, and the cells of column x before y
CumBefore(p, x, y) ==
    SumTo([c \in 0 .. x - 1 |-> SumTo(p.buf[c], Len0(p.buf[c]))], x) + SumTo(p.buf[x], y)

\* C22: with exact arithmetic and sum > 0, sample with drawn value r returns
\* a cell (x, y) of the map with CumBefore(x, y) <= r * sum < CumBefore(x, y) +
\* buf[x][y]; the cell and its column have non-zero density.
C22_CumulativeInterval ==
    (pc = "sampled" /\ prg.sum > 0) =>
        /\ sampled.x \in 0 .. Len0(prg.buf) - 1
        /\ sampled.y \in 0 .. Len0(prg.buf[sampled.x]) - 1
        /\ CumBefore(prg, sampled.x, sampled.y) * RandDenom <= rnd * prg.sum
        /\ rnd * prg.sum <
              (CumBefore(prg, sampled.x, sampled.y) + prg.buf[sampled.x][sampled.y]) * RandDenom
        /\ prg.buf[sampled.x][sampled.y] > 0
        /\ prg.rows[sampled.x] > 0

\* the draw falls exactly on the lower end of the interval of cell (1, 1),
\* which comes after a column with density and a cell without
C22_Witness ==
    /\ pc = "sampled"
    /\ prg.sum > 0
    /\ Len0(prg.buf) = 2 /\ Len0(prg.buf[1]) = 2
    /\ prg.rows[0] > 0 /\ prg.buf[1][0] = 0
    /\ rnd * prg.sum = CumBefore(prg, 1, 1) * RandDenom
    /\ sampled.x = 1 /\ sampled.y = 1

\* the fields of the nodes other than z
WithoutZ(ns) ==
    [i \in DOMAIN ns |->
        [pos |-> ns[i].pos, parent |-> ns[i].parent, depth |-> ns[i].depth,
         child_count |-> ns[i].child_count, alive |-> ns[i].alive,
         weight |-> ns[i].weight]]

\* C23: two trees with the same Config and the same initial points have,
\* after the same number of sim calls, arenas that agree in position, parent,
\* depth, child_count, alive and weight, the same remaining points and the
\* same growing flag, whatever z offsets each of them drew.
C23_Reproducible ==
    /\ WithoutZ(nodes) = WithoutZ(twin.nodes)
    /\ points = twin.points
    /\ growing = twin.growing

\* the two trees branched, lost a node to prune and differ in the z of a
\* node that has a child
C23_Witness ==
    /\ pc = "tree"
    /\ \E i, j \in DOMAIN nodes : i # j /\ nodes[i].parent = nodes[j].parent
    /\ \E i \in DOMAIN nodes : ~nodes[i].alive
    /\ \E i \in DOMAIN nodes \ {0} :
          /\ i \in DOMAIN twin.nodes
          /\ nodes[i].z # twin.nodes[i].z
          /\ nodes[i].child_count > 0

\* C24: if at a cycle boundary a point lies strictly within kill_dist of a
\* node, the tree is still growing, so that the next sim call is not a no-op,
\* and that call removes the point; hence once growing is false no point lies
\* within kill_dist of a node.
C24_KillDelay ==
    /\ (\E k \in DOMAIN points : \E i \in DOMAIN nodes :
            InKillDist(points[k], nodes[i], config)) => growing
    /\ calls > 0 =>
          \A k \in DOMAIN before.points :
              (\E i \in DOMAIN before.nodes :
                    InKillDist(before.points[k], before.nodes[i], config))
                  => \A j \in DOMAIN points : points[j] # before.points[k]

\* a point that was within kill_dist of a node other than the root, and not
\* of the root, is gone after the call that turned growing off, and a point
\* is left
C24_Witness ==
    /\ pc = "tree"
    /\ calls > 1
    /\ before.growing /\ ~growing
    /\ points # <<>>
    /\ \E k \in DOMAIN before.points :
          /\ ~InKillDist(before.points[k], before.nodes[0], config)
          /\ \E i \in DOMAIN before.nodes :
                InKillDist(before.points[k], before.nodes[i], config)
          /\ \A j \in DOMAIN points : points[j] # before.points[k]

\* C25: with 0 <= prune_size_ratio <= 1 the root is alive in every reachable
\* state; when prune runs the root's weight is at least the weight of every
\* node, and no node is small and near compared with itself or with one of
\* its descendants.
C25_RootAlive ==
    (0 <= config.prune_size_ratio[1] /\ config.prune_size_ratio[1] <= config.prune_size_ratio[2]) =>
        /\ nodes[0].alive
        /\ \A c \in DOMAIN inner.nodes : inner.nodes[0].weight >= inner.nodes[c].weight
        /\ \A i, c \in DOMAIN inner.nodes :
              (c = i \/ IsDescendant(inner.nodes, c, i))
                  => ~SmallAndNear(inner.nodes[i], inner.nodes[c], config)

\* with prune_size_ratio = 1 the latest prune marked a node by comparison
\* with its parent, in an arena where a node other than the root had a
\* weight above 1, and the root stayed alive
C25_Witness ==
    /\ pc = "tree"
    /\ config.prune_size_ratio = <<1, 1>>
    /\ nodes[0].alive
    /\ \E i \in DOMAIN inner.nodes \ {0} :
          SmallAndNear(inner.nodes[i], inner.nodes[inner.nodes[i].parent], config)
    /\ \E i \in DOMAIN inner.nodes \ {0} : inner.nodes[i].weight > 1

RECURSIVE TreePositions(_, _)
\* the number of positions of depth <= d in a tree whose nodes have at most
\* mc children
TreePositions(mc, d) == IF d = 0 THEN 1 ELSE Pow(mc, d) + TreePositions(mc, d - 1)

\* C26: growth always stagnates.  Every sim call that starts and ends with
\* growing true appends at least one node; the arena never holds more nodes
\* than a tree of depth max_depth with at most max_children children per
\* node has positions; so after that many sim calls on a fresh tree growing
\* is false, and once it is false it stays false and the arena no longer
\* changes.
C26_Stagnates ==
    /\ [][(growing /\ growing') => Len0(nodes') > Len0(nodes)]_vars
    /\ [](Len0(nodes) <= TreePositions(config.max_children, config.max_depth))
    /\ [](calls >= TreePositions(config.max_children, config.max_depth) => ~growing)
    /\ [][~growing => (~growing' /\ nodes' = nodes)]_vars

\* a tree that filled every position and whose growing flag fell in the
\* last sim call the bound allows
C26_Witness ==
    /\ pc = "tree"
    /\ config.max_depth > 1
    /\ Len0(nodes) = TreePositions(config.max_children, config.max_depth)
    /\ calls = TreePositions(config.max_children, config.max_depth)
    /\ before.growing /\ ~growing

\* C27: a tree that is still growing after k sim calls since it was fresh
\* has at least k + 1 nodes, and every tree new_min_growth discards has its
\* growing flag off.
C27_DiscardsStagnant ==
    /\ [](growing => Len0(nodes) >= calls + 1)
    /\ [][tries' # tries => ~growing]_vars

\* after an attempt was discarded, a tree that is still growing with exactly
\* iter + 1 nodes after its iter >= 2 sim calls is returned
C27_Witness ==
    /\ pc = "returned"
    /\ tries >= 1
    /\ iter >= 2 /\ calls = iter
    /\ growing
    /\ Len0(nodes) = calls + 1

\* no attempt under cfg reaches it nodes: there are no points and it >= 2,
\* or max_children = 1 and max_depth + 1 < it
Hopeless(cfg, it) ==
    \/ cfg.num_points = 0 /\ it >= 2
    \/ cfg.max_children = 1 /\ cfg.max_depth + 1 < it

\* C28: new_min_growth returns only a tree of at least iter nodes; under a
\* Config with which no attempt reaches iter nodes it never returns: every
\* attempt ends with fewer than iter nodes, and the only step taken from
\* there discards it and starts a new attempt.
C28_NeverReturns ==
    /\ [](pc = "returned" => Len0(nodes) >= iter)
    /\ [](Hopeless(config, iter) => pc # "returned")
    /\ [](Hopeless(config, iter) => Len0(nodes) < iter)
    /\ [][(Hopeless(config, iter) /\ calls = iter)
            => (tries' = tries + 1 /\ calls' = 0 /\ pc' = "attempt")]_vars

\* with max_children = 1 and max_depth + 1 < iter an attempt that grew to
\* max_depth + 1 nodes is at its end, after an earlier attempt was discarded
C28_Witness ==
    /\ pc = "attempt"
    /\ config.max_children = 1 /\ config.max_depth + 1 < iter
    /\ calls = iter
    /\ Len0(nodes) = config.max_depth + 1
    /\ tries >= 1

\* a.y - b.y >= d as f32 computes it: false when a or b is NaN
YGrowthAtLeast(a, b, d) == ~a.nan /\ ~b.nan /\ a.y - b.y >= d

\* C29: every non-root node of the arena satisfies
\* node.pos.y - parent.pos.y >= min_y_growth.
C29_YGrowth ==
    \A i \in DOMAIN nodes \ {0} :
        YGrowthAtLeast(nodes[i].pos, nodes[nodes[i].parent].pos, config.min_y_growth)

====
